---------------------------- MODULE Spec2Model ----------------------------
(***************************************************************************)
(* A model of src/src/lcs_algorithms.py: the four Longest Common           *)
(* Subsequence strategies (lcs_brute_force, lcs_recursive, lcs_memoized,   *)
(* lcs_bottom_up) and the shared primitive _is_subsequence.                *)
(*                                                                         *)
(* A Python str is modelled as a sequence of one-character strings.  A     *)
(* Python 0-based index k is the TLA+ index k + 1.                         *)
(*                                                                         *)
(* Each call runs in a frame p.  lcs_brute_force, lcs_memoized and         *)
(* lcs_bottom_up are modelled step by step (one action per loop iteration  *)
(* or per activation of _lcs_memo); lcs_recursive and _is_subsequence are  *)
(* pure and modelled as operators that compute what the code computes;     *)
(* for the claims about its call stack lcs_recursive is also run one       *)
(* activation at a time (SpecRec).                                         *)
(***************************************************************************)
EXTENDS Integers, Sequences, FiniteSets

\* ------------------------------------------------------------------ bounds

\* Longest input string of a call in the sequential specification Spec.
MaxLen == 3

\* Longest input string of a call in the concurrent specification SpecConc.
ConcMaxLen == 2

\* The characters inputs are drawn from.
Alphabet == {"A", "B"}

\* The frames (calls) that may be active at once.
Procs == {1, 2}

\* All strings over Alphabet of length at most n.
Str(n) == UNION {[1..k -> Alphabet] : k \in 0..n}

\* ------------------------------------------------------ Python primitives

\* S[:k] for 0 <= k <= len(S).
Prefix(S, k) == SubSeq(S, 1, k)

\* A slip in a slice: S[:] for S[:-1].
KeepAll(S) == S

\* S[:-1].
DropLast(S) == SubSeq(S, 1, Len(S) - 1)

\* What evaluating S[k] does: the character, or IndexError.  A negative k
\* counts from the end, as in Python.
IndexError == "IndexError"
At(S, k) ==
    IF 0 <= k /\ k < Len(S) THEN S[k + 1]
    ELSE IF -Len(S) <= k /\ k < 0 THEN S[Len(S) + k + 1]
    ELSE IndexError

\* (i >> j) & 1
Bit(n, b) == (n \div (2 ^ b)) % 2

Max(a, b) == IF a >= b THEN a ELSE b

\* -------------------------------------------------------- _is_subsequence

\* A slip in _is_subsequence: j advances only when the characters differ.
RECURSIVE SubseqScanStall(_, _, _, _)
SubseqScanStall(sub, main_str, si, sj) ==
    IF si < Len(sub) /\ sj < Len(main_str)
    THEN IF sub[si + 1] = main_str[sj + 1]
         THEN SubseqScanStall(sub, main_str, si + 1, sj)
         ELSE SubseqScanStall(sub, main_str, si, sj + 1)
    ELSE si

\* The while loop of _is_subsequence from pointer positions (i, j); the
\* value is the final i.
RECURSIVE SubseqScan(_, _, _, _)
SubseqScan(sub, main_str, si, sj) ==
    IF si < Len(sub) /\ sj < Len(main_str)
    THEN IF sub[si + 1] = main_str[sj + 1]
         THEN SubseqScan(sub, main_str, si + 1, sj + 1)
         ELSE SubseqScan(sub, main_str, si, sj + 1)
    ELSE si

_is_subsequence(sub, main_str) ==
    SubseqScan(sub, main_str, 0, 0) = Len(sub)

\* ---------------------------------------------------------- lcs_recursive

\* Slips in the choice between the two branches: the comparison turned
\* round, and the comparison left out.
KeepShorterBranch(lcs1, lcs2) == IF Len(lcs1) <= Len(lcs2) THEN lcs1 ELSE lcs2
KeepFirstBranch(lcs1, lcs2) == lcs1

\* return lcs1 if len(lcs1) >= len(lcs2) else lcs2
KeepBranch(lcs1, lcs2) == IF Len(lcs1) >= Len(lcs2) THEN lcs1 ELSE lcs2

RECURSIVE lcs_recursive(_, _)
lcs_recursive(Xs, Ys) ==
    IF Len(Xs) = 0 \/ Len(Ys) = 0 THEN << >>
    ELSE IF Xs[Len(Xs)] = Ys[Len(Ys)]
         THEN Append(lcs_recursive(DropLast(Xs), DropLast(Ys)), Xs[Len(Xs)])
         ELSE KeepBranch(lcs_recursive(Xs, DropLast(Ys)),
                         lcs_recursive(DropLast(Xs), Ys))

\* -------------------------------------------------------- lcs_brute_force

\* The inner loop of lcs_brute_force: the characters X[j] whose bit j of
\* the mask is set, j = from .. m-1, in index order.
RECURSIVE CandidateFrom(_, _, _)
CandidateFrom(Xs, mask, from) ==
    IF from >= Len(Xs) THEN << >>
    ELSE IF Bit(mask, from) = 1
         THEN <<Xs[from + 1]>> \o CandidateFrom(Xs, mask, from + 1)
         ELSE CandidateFrom(Xs, mask, from + 1)

\* A slip in the inner loop: subsequence = X[j] + subsequence.
RECURSIVE CandidatePrepended(_, _, _)
CandidatePrepended(Xs, mask, from) ==
    IF from >= Len(Xs) THEN << >>
    ELSE IF Bit(mask, from) = 1
         THEN CandidatePrepended(Xs, mask, from + 1) \o <<Xs[from + 1]>>
         ELSE CandidatePrepended(Xs, mask, from + 1)

CandidateReversed(Xs, mask) == CandidatePrepended(Xs, mask, 0)

Candidate(Xs, mask) == CandidateFrom(Xs, mask, 0)

\* A slip in line 31: >= for >, so that a later candidate of equal length
\* replaces the one kept.
ReplacesOnTie(subsequence, Ys, kept) ==
    _is_subsequence(subsequence, Ys) /\ Len(subsequence) >= Len(kept)

\* The guard of line 30-31: the candidate replaces the one kept.
Replaces(subsequence, Ys, kept) ==
    _is_subsequence(subsequence, Ys) /\ Len(subsequence) > Len(kept)


\* ------------------------------------------------------------------ state

Strategies == {"lcs_brute_force", "lcs_recursive", "lcs_memoized", "lcs_bottom_up"}

VARIABLES
    pc,       \* pc[p]: where call p is: "idle", "bf", "memo", "fill", "back",
              \*        "rec", "done" (returned) or "raised" (left by an
              \*        exception)
    fn,       \* fn[p]: the function call p runs, "none" when idle
    X, Y,     \* X[p], Y[p]: the arguments of call p
    ret,      \* ret[p]: the value call p returned
    i, j,     \* i[p], j[p]: the loop variables i and j of call p
    longest_common_subsequence,   \* lcs_brute_force's local
    memo,     \* memo[s]: the dict bound at line 80, keys <<i, j>>
    stack,    \* stack[p]: the activations of _lcs_memo (of lcs_recursive in
              \*           SpecRec), innermost last
    rv,       \* rv[p]: the value the last finished activation returned
    c,        \* c[s]: the list of rows bound at line 113
    lcs_str,  \* lcs_bottom_up's local
    hist,     \* the calls that returned so far, in order (sequential runs)
    evals,    \* evals[p]: per index pair <<i, j>>, how many times call p
              \*           evaluated the body of _lcs_memo from line 90 on
              \*           (history, not read by the program)
    iterations,   \* iterations[p]: the iterations of the loop at line 126
              \*           call p completed (history, not read by the program)
    filled,   \* filled[s]: the cells <<i, j>> of c[s] assigned by the loop of
              \*            lines 115-120 (history, not read by the program)
    writer    \* writer[s]: per key of memo[s], or for the table c[s], the
              \* call that wrote it (history, not read by the program)

vars == <<pc, fn, X, Y, ret, i, j, longest_common_subsequence, memo, stack,
          rv, c, lcs_str, hist, filled, writer, evals, iterations>>

EmptyMap == [k \in {} |-> << >>]

Put(f, k, v) == [a \in DOMAIN f \cup {k} |-> IF a = k THEN v ELSE f[a]]

\* One more occurrence of k in the count f.
Tally(f, k) == Put(f, k, IF k \in DOMAIN f THEN f[k] + 1 ELSE 1)

\* A slip in the scoping: one object shared by every call (a module-level
\* name, a mutable default argument).
SharedScope(p) == 1

\* The object a call's local name (memo, c) is bound to: each call binds a
\* fresh object of its own (memo = {} at line 80, the list built at line 113).
Scope(p) == p

Init ==
    /\ pc = [p \in Procs |-> "idle"]
    /\ fn = [p \in Procs |-> "none"]
    /\ X = [p \in Procs |-> << >>]
    /\ Y = [p \in Procs |-> << >>]
    /\ ret = [p \in Procs |-> << >>]
    /\ i = [p \in Procs |-> 0]
    /\ j = [p \in Procs |-> 0]
    /\ longest_common_subsequence = [p \in Procs |-> << >>]
    /\ memo = [s \in Procs |-> EmptyMap]
    /\ stack = [p \in Procs |-> << >>]
    /\ rv = [p \in Procs |-> << >>]
    /\ c = [s \in Procs |-> << >>]
    /\ lcs_str = [p \in Procs |-> << >>]
    /\ hist = << >>
    /\ filled = [s \in Procs |-> {}]
    /\ writer = [s \in Procs |-> EmptyMap]
    /\ evals = [p \in Procs |-> EmptyMap]
    /\ iterations = [p \in Procs |-> 0]

\* Python index validity and the TLA+ index of S[k].
InRange(S, k) == -Len(S) <= k /\ k < Len(S)
Pos(S, k) == IF k < 0 THEN Len(S) + k + 1 ELSE k + 1

\* ------------------------------------------------- lcs_brute_force, steps

CallBruteForce(p, x, y) ==
    /\ pc[p] = "idle"
    /\ pc' = [pc EXCEPT ![p] = "bf"]
    /\ fn' = [fn EXCEPT ![p] = "lcs_brute_force"]
    /\ X' = [X EXCEPT ![p] = x]
    /\ Y' = [Y EXCEPT ![p] = y]
    /\ i' = [i EXCEPT ![p] = 0]
    /\ longest_common_subsequence' =
           [longest_common_subsequence EXCEPT ![p] = << >>]
    /\ UNCHANGED <<ret, j, memo, stack, rv, c, lcs_str, hist, filled, writer>>
    /\ UNCHANGED <<evals, iterations>>

\* One iteration of the loop at line 22, for the bitmask i.
BfIter(p) ==
    /\ pc[p] = "bf"
    /\ i[p] < 2 ^ Len(X[p])
    /\ longest_common_subsequence' =
           [longest_common_subsequence EXCEPT ![p] =
               IF Replaces(Candidate(X[p], i[p]), Y[p], @)
               THEN Candidate(X[p], i[p]) ELSE @]
    /\ i' = [i EXCEPT ![p] = @ + 1]
    /\ UNCHANGED <<pc, fn, X, Y, ret, j, memo, stack, rv, c, lcs_str, hist,
                   filled, writer>>
    /\ UNCHANGED <<evals, iterations>>

BfReturn(p) ==
    /\ pc[p] = "bf"
    /\ i[p] = 2 ^ Len(X[p])
    /\ ret' = [ret EXCEPT ![p] = longest_common_subsequence[p]]
    /\ pc' = [pc EXCEPT ![p] = "done"]
    /\ UNCHANGED <<fn, X, Y, i, j, longest_common_subsequence, memo, stack,
                   rv, c, lcs_str, hist, filled, writer>>
    /\ UNCHANGED <<evals, iterations>>

\* ------------------------------------- lcs_recursive and _is_subsequence

CallRecursive(p, x, y) ==
    /\ pc[p] = "idle"
    /\ pc' = [pc EXCEPT ![p] = "done"]
    /\ fn' = [fn EXCEPT ![p] = "lcs_recursive"]
    /\ X' = [X EXCEPT ![p] = x]
    /\ Y' = [Y EXCEPT ![p] = y]
    /\ ret' = [ret EXCEPT ![p] = lcs_recursive(x, y)]
    /\ UNCHANGED <<i, j, longest_common_subsequence, memo, stack, rv, c,
                   lcs_str, hist, filled, writer>>
    /\ UNCHANGED <<evals, iterations>>

\* A call _is_subsequence(sub, main_str); X holds sub and Y holds main_str.
CallIsSubsequence(p, sub, main_str) ==
    /\ pc[p] = "idle"
    /\ pc' = [pc EXCEPT ![p] = "done"]
    /\ fn' = [fn EXCEPT ![p] = "_is_subsequence"]
    /\ X' = [X EXCEPT ![p] = sub]
    /\ Y' = [Y EXCEPT ![p] = main_str]
    /\ ret' = [ret EXCEPT ![p] = _is_subsequence(sub, main_str)]
    /\ UNCHANGED <<i, j, longest_common_subsequence, memo, stack, rv, c,
                   lcs_str, hist, filled, writer>>
    /\ UNCHANGED <<evals, iterations>>

\* ---------------------------------------------------- lcs_memoized, steps

\* An activation _lcs_memo(a, b) that has not run yet.
Activation(a, b) == [i |-> a, j |-> b, at |-> "entry", lcs1 |-> << >>]

Top(p) == stack[p][Len(stack[p])]
Pop(p) == SubSeq(stack[p], 1, Len(stack[p]) - 1)

\* The innermost activation moves to line `at`, keeping lcs1 = l1, and
\* calls _lcs_memo(a, b).
Recurse(p, at, l1, a, b) ==
    Append(Append(Pop(p), [Top(p) EXCEPT !.at = at, !.lcs1 = l1]),
           Activation(a, b))

\* A slip in line 88: and for or.
BaseCaseBoth(a, b) == a = 0 /\ b = 0

\* if i == 0 or j == 0 (line 88)
BaseCase(a, b) == a = 0 \/ b = 0

\* Lines 80 and 101: bind a fresh dict and call _lcs_memo(len(X), len(Y)).
CallMemoized(p, x, y) ==
    /\ pc[p] = "idle"
    /\ pc' = [pc EXCEPT ![p] = "memo"]
    /\ fn' = [fn EXCEPT ![p] = "lcs_memoized"]
    /\ X' = [X EXCEPT ![p] = x]
    /\ Y' = [Y EXCEPT ![p] = y]
    /\ memo' = [memo EXCEPT ![Scope(p)] = EmptyMap]
    /\ writer' = [writer EXCEPT ![Scope(p)] = EmptyMap]
    /\ stack' = [stack EXCEPT ![p] = <<Activation(Len(x), Len(y))>>]
    /\ UNCHANGED <<ret, i, j, longest_common_subsequence, rv, c, lcs_str,
                   hist, filled>>
    /\ evals' = [evals EXCEPT ![p] = EmptyMap]
    /\ UNCHANGED iterations

\* Lines 84-85: the subproblem is in the cache.
MemoHit(p) ==
    /\ pc[p] = "memo" /\ stack[p] # << >> /\ Top(p).at = "entry"
    /\ <<Top(p).i, Top(p).j>> \in DOMAIN memo[Scope(p)]
    /\ rv' = [rv EXCEPT ![p] = memo[Scope(p)][<<Top(p).i, Top(p).j>>]]
    /\ stack' = [stack EXCEPT ![p] = Pop(p)]
    /\ UNCHANGED <<pc, fn, X, Y, ret, i, j, longest_common_subsequence, memo,
                   c, lcs_str, hist, filled, writer>>
    /\ UNCHANGED <<evals, iterations>>

\* Lines 88-89.
MemoBase(p) ==
    /\ pc[p] = "memo" /\ stack[p] # << >> /\ Top(p).at = "entry"
    /\ <<Top(p).i, Top(p).j>> \notin DOMAIN memo[Scope(p)]
    /\ BaseCase(Top(p).i, Top(p).j)
    /\ rv' = [rv EXCEPT ![p] = << >>]
    /\ stack' = [stack EXCEPT ![p] = Pop(p)]
    /\ UNCHANGED <<pc, fn, X, Y, ret, i, j, longest_common_subsequence, memo,
                   c, lcs_str, hist, filled, writer>>
    /\ UNCHANGED <<evals, iterations>>

\* Line 90 and the first recursive call of the branch taken (line 91 or 93).
\* X[i - 1] or Y[j - 1] out of range raises IndexError.
MemoBody(p) ==
    /\ pc[p] = "memo" /\ stack[p] # << >> /\ Top(p).at = "entry"
    /\ <<Top(p).i, Top(p).j>> \notin DOMAIN memo[Scope(p)]
    /\ ~BaseCase(Top(p).i, Top(p).j)
    /\ IF ~(InRange(X[p], Top(p).i - 1) /\ InRange(Y[p], Top(p).j - 1))
       THEN /\ pc' = [pc EXCEPT ![p] = "raised"]
            /\ UNCHANGED stack
       ELSE /\ stack' = [stack EXCEPT ![p] =
                   IF At(X[p], Top(p).i - 1) = At(Y[p], Top(p).j - 1)
                   THEN Recurse(p, "line91", << >>, Top(p).i - 1, Top(p).j - 1)
                   ELSE Recurse(p, "line93", << >>, Top(p).i, Top(p).j - 1)]
            /\ UNCHANGED pc
    /\ UNCHANGED <<fn, X, Y, ret, i, j, longest_common_subsequence, memo, rv,
                   c, lcs_str, hist, filled, writer>>
    /\ evals' = [evals EXCEPT ![p] = Tally(@, <<Top(p).i, Top(p).j>>)]
    /\ UNCHANGED iterations

\* Line 93 returned: bind lcs1 and make the call of line 94.
MemoSecond(p) ==
    /\ pc[p] = "memo" /\ stack[p] # << >> /\ Top(p).at = "line93"
    /\ stack' = [stack EXCEPT ![p] =
                    Recurse(p, "line94", rv[p], Top(p).i - 1, Top(p).j)]
    /\ UNCHANGED <<pc, fn, X, Y, ret, i, j, longest_common_subsequence, memo,
                   rv, c, lcs_str, hist, filled, writer>>
    /\ UNCHANGED <<evals, iterations>>

\* A slip in line 95: the two branches compared in the other order, so that
\* the second wins a tie.
MemoResultSecondWins(p) ==
    IF Top(p).at = "line91"
    THEN Append(rv[p], At(X[p], Top(p).i - 1))
    ELSE KeepBranch(rv[p], Top(p).lcs1)

\* The result of an activation whose last recursive call returned rv[p]:
\* line 91 or line 95.
MemoResult(p) ==
    IF Top(p).at = "line91"
    THEN Append(rv[p], At(X[p], Top(p).i - 1))
    ELSE KeepBranch(Top(p).lcs1, rv[p])

\* A slip in line 98: the result is returned without being stored.
MemoStoreLeftOut(p) ==
    /\ pc[p] = "memo" /\ stack[p] # << >>
    /\ Top(p).at \in {"line91", "line94"}
    /\ rv' = [rv EXCEPT ![p] = MemoResult(p)]
    /\ stack' = [stack EXCEPT ![p] = Pop(p)]
    /\ UNCHANGED <<pc, fn, X, Y, ret, i, j, longest_common_subsequence, c,
                   lcs_str, hist, filled, memo, writer>>
    /\ UNCHANGED <<evals, iterations>>

\* Lines 98-99: store the result in the cache and return it.
MemoStore(p) ==
    /\ pc[p] = "memo" /\ stack[p] # << >>
    /\ Top(p).at \in {"line91", "line94"}
    /\ memo' = [memo EXCEPT ![Scope(p)] =
                   Put(@, <<Top(p).i, Top(p).j>>, MemoResult(p))]
    /\ writer' = [writer EXCEPT ![Scope(p)] =
                     Put(@, <<Top(p).i, Top(p).j>>, p)]
    /\ rv' = [rv EXCEPT ![p] = MemoResult(p)]
    /\ stack' = [stack EXCEPT ![p] = Pop(p)]
    /\ UNCHANGED <<pc, fn, X, Y, ret, i, j, longest_common_subsequence, c,
                   lcs_str, hist, filled>>
    /\ UNCHANGED <<evals, iterations>>

\* Line 101: the outermost activation returned.
MemoReturn(p) ==
    /\ pc[p] = "memo" /\ stack[p] = << >>
    /\ ret' = [ret EXCEPT ![p] = rv[p]]
    /\ pc' = [pc EXCEPT ![p] = "done"]
    /\ UNCHANGED <<fn, X, Y, i, j, longest_common_subsequence, memo, stack,
                   rv, c, lcs_str, hist, filled, writer>>
    /\ UNCHANGED <<evals, iterations>>

\* --------------------------------------------------- lcs_bottom_up, steps

\* c[a][b] on a list of rows: whether both indices are in range, and the cell.
CellOk(tab, a, b) == InRange(tab, a) /\ InRange(tab[Pos(tab, a)], b)
Cell(tab, a, b) == tab[Pos(tab, a)][Pos(tab[Pos(tab, a)], b)]
\* The 0-based place of c[a][b].
Place(tab, a, b) == <<Pos(tab, a) - 1, Pos(tab[Pos(tab, a)], b) - 1>>
SetCell(tab, a, b, v) ==
    [tab EXCEPT ![Pos(tab, a)][Pos(tab[Pos(tab, a)], b)] = v]

\* Line 113: m + 1 rows of n + 1 zeros.
Zeros(m, n) == [a \in 1..(m + 1) |-> [b \in 1..(n + 1) |-> 0]]

\* Lines 110-115: bind the table and enter the loops.
CallBottomUp(p, x, y) ==
    /\ pc[p] = "idle"
    /\ pc' = [pc EXCEPT ![p] = "fill"]
    /\ fn' = [fn EXCEPT ![p] = "lcs_bottom_up"]
    /\ X' = [X EXCEPT ![p] = x]
    /\ Y' = [Y EXCEPT ![p] = y]
    /\ c' = [c EXCEPT ![Scope(p)] = Zeros(Len(x), Len(y))]
    /\ filled' = [filled EXCEPT ![Scope(p)] = {}]
    /\ writer' = [writer EXCEPT ![Scope(p)] =
                     [k \in (0..Len(x)) \X (0..Len(y)) |-> p]]
    /\ i' = [i EXCEPT ![p] = 1]
    /\ j' = [j EXCEPT ![p] = 1]
    /\ UNCHANGED <<ret, longest_common_subsequence, memo, stack, rv, lcs_str,
                   hist>>
    /\ UNCHANGED <<evals, iterations>>

\* The cells the body of the inner loop reads for (a, b): line 118 or 120.
FillReads(p, a, b) ==
    IF At(X[p], a - 1) = At(Y[p], b - 1)
    THEN {<<a - 1, b - 1>>}
    ELSE {<<a - 1, b>>, <<a, b - 1>>}

\* A slip in line 120: min for max.
FillValueMin(p, tab, a, b) ==
    IF At(X[p], a - 1) = At(Y[p], b - 1)
    THEN Cell(tab, a - 1, b - 1) + 1
    ELSE IF Cell(tab, a - 1, b) <= Cell(tab, a, b - 1)
         THEN Cell(tab, a - 1, b) ELSE Cell(tab, a, b - 1)

\* The value the body of the inner loop assigns to c[a][b].
FillValue(p, tab, a, b) ==
    IF At(X[p], a - 1) = At(Y[p], b - 1)
    THEN Cell(tab, a - 1, b - 1) + 1
    ELSE Max(Cell(tab, a - 1, b), Cell(tab, a, b - 1))

\* Lines 117-120 for the current (i, j), then the next j.
FillCell(p) ==
    /\ pc[p] = "fill"
    /\ i[p] <= Len(X[p]) /\ j[p] <= Len(Y[p])
    /\ IF /\ InRange(X[p], i[p] - 1) /\ InRange(Y[p], j[p] - 1)
          /\ \A k \in FillReads(p, i[p], j[p]) \cup {<<i[p], j[p]>>} :
                 CellOk(c[Scope(p)], k[1], k[2])
       THEN /\ c' = [c EXCEPT ![Scope(p)] =
                       SetCell(@, i[p], j[p], FillValue(p, @, i[p], j[p]))]
            /\ filled' = [filled EXCEPT ![Scope(p)] =
                             @ \cup {Place(c[Scope(p)], i[p], j[p])}]
            /\ writer' = [writer EXCEPT ![Scope(p)] =
                             Put(@, Place(c[Scope(p)], i[p], j[p]), p)]
            /\ j' = [j EXCEPT ![p] = @ + 1]
            /\ UNCHANGED pc
       ELSE /\ pc' = [pc EXCEPT ![p] = "raised"]
            /\ UNCHANGED <<c, filled, writer, j>>
    /\ UNCHANGED <<fn, X, Y, ret, i, longest_common_subsequence, memo, stack,
                   rv, lcs_str, hist>>
    /\ UNCHANGED <<evals, iterations>>

\* The inner loop (line 116) is exhausted: the next i.
FillNextRow(p) ==
    /\ pc[p] = "fill"
    /\ i[p] <= Len(X[p]) /\ j[p] > Len(Y[p])
    /\ i' = [i EXCEPT ![p] = @ + 1]
    /\ j' = [j EXCEPT ![p] = 1]
    /\ UNCHANGED <<pc, fn, X, Y, ret, longest_common_subsequence, memo, stack,
                   rv, c, lcs_str, hist, filled, writer>>
    /\ UNCHANGED <<evals, iterations>>

\* The outer loop (line 115) is exhausted; lines 124-125.
FillDone(p) ==
    /\ pc[p] = "fill"
    /\ i[p] > Len(X[p])
    /\ lcs_str' = [lcs_str EXCEPT ![p] = << >>]
    /\ i' = [i EXCEPT ![p] = Len(X[p])]
    /\ j' = [j EXCEPT ![p] = Len(Y[p])]
    /\ pc' = [pc EXCEPT ![p] = "back"]
    /\ UNCHANGED <<fn, X, Y, ret, longest_common_subsequence, memo, stack,
                   rv, c, hist, filled, writer>>
    /\ iterations' = [iterations EXCEPT ![p] = 0]
    /\ UNCHANGED evals

\* A slip in lines 133-134: the elif branch left out.
MoveUpNever(tab, a, b) == FALSE

\* A slip in line 133: >= for >, so that a tie moves up.
MoveUpOnTie(tab, a, b) == Cell(tab, a - 1, b) >= Cell(tab, a, b - 1)

\* A slip in line 133: < for >.
MoveUpWhenLess(tab, a, b) == Cell(tab, a - 1, b) < Cell(tab, a, b - 1)

\* elif c[i - 1][j] > c[i][j - 1] (line 133): move up rather than left.
MoveUp(tab, a, b) == Cell(tab, a - 1, b) > Cell(tab, a, b - 1)

\* One iteration of the loop at line 126.
BackStep(p) ==
    /\ pc[p] = "back"
    /\ i[p] > 0 /\ j[p] > 0
    /\ IF ~(InRange(X[p], i[p] - 1) /\ InRange(Y[p], j[p] - 1))
       THEN /\ pc' = [pc EXCEPT ![p] = "raised"]
            /\ UNCHANGED <<i, j, lcs_str, iterations>>
       ELSE IF At(X[p], i[p] - 1) = At(Y[p], j[p] - 1)
       THEN /\ lcs_str' = [lcs_str EXCEPT ![p] = <<At(X[p], i[p] - 1)>> \o @]
            /\ i' = [i EXCEPT ![p] = @ - 1]
            /\ j' = [j EXCEPT ![p] = @ - 1]
            /\ iterations' = [iterations EXCEPT ![p] = @ + 1]
            /\ UNCHANGED pc
       ELSE IF ~(CellOk(c[Scope(p)], i[p] - 1, j[p]) /\
                 CellOk(c[Scope(p)], i[p], j[p] - 1))
       THEN /\ pc' = [pc EXCEPT ![p] = "raised"]
            /\ UNCHANGED <<i, j, lcs_str, iterations>>
       ELSE IF MoveUp(c[Scope(p)], i[p], j[p])
       THEN /\ i' = [i EXCEPT ![p] = @ - 1]
            /\ iterations' = [iterations EXCEPT ![p] = @ + 1]
            /\ UNCHANGED <<pc, j, lcs_str>>
       ELSE /\ j' = [j EXCEPT ![p] = @ - 1]
            /\ iterations' = [iterations EXCEPT ![p] = @ + 1]
            /\ UNCHANGED <<pc, i, lcs_str>>
    /\ UNCHANGED <<fn, X, Y, ret, longest_common_subsequence, memo, stack,
                   rv, c, hist, filled, writer, evals>>

\* Line 138.
BackReturn(p) ==
    /\ pc[p] = "back"
    /\ ~(i[p] > 0 /\ j[p] > 0)
    /\ ret' = [ret EXCEPT ![p] = lcs_str[p]]
    /\ pc' = [pc EXCEPT ![p] = "done"]
    /\ UNCHANGED <<fn, X, Y, i, j, longest_common_subsequence, memo, stack,
                   rv, c, lcs_str, hist, filled, writer>>
    /\ UNCHANGED <<evals, iterations>>

\* ------------------------------------------------------- sequential runs

\* Call p returned: its locals are released.
Release(p) ==
    /\ pc' = [pc EXCEPT ![p] = "idle"]
    /\ fn' = [fn EXCEPT ![p] = "none"]
    /\ X' = [X EXCEPT ![p] = << >>]
    /\ Y' = [Y EXCEPT ![p] = << >>]
    /\ ret' = [ret EXCEPT ![p] = << >>]
    /\ i' = [i EXCEPT ![p] = 0]
    /\ j' = [j EXCEPT ![p] = 0]
    /\ longest_common_subsequence' =
           [longest_common_subsequence EXCEPT ![p] = << >>]
    /\ memo' = [memo EXCEPT ![Scope(p)] = EmptyMap]
    /\ stack' = [stack EXCEPT ![p] = << >>]
    /\ rv' = [rv EXCEPT ![p] = << >>]
    /\ c' = [c EXCEPT ![Scope(p)] = << >>]
    /\ lcs_str' = [lcs_str EXCEPT ![p] = << >>]
    /\ filled' = [filled EXCEPT ![Scope(p)] = {}]
    /\ writer' = [writer EXCEPT ![Scope(p)] = EmptyMap]
    /\ evals' = [evals EXCEPT ![p] = EmptyMap]
    /\ iterations' = [iterations EXCEPT ![p] = 0]

\* The calls a caller makes after h returned, to compare with it: another
\* strategy on the same arguments, the same strategy on the arguments
\* swapped, the same strategy with one character appended to X.
Related(h) ==
    {<<f, h.X, h.Y>> : f \in Strategies \ {h.fn}}
        \cup {<<h.fn, h.Y, h.X>>}
        \cup {<<h.fn, Append(h.X, ch), h.Y>> : ch \in Alphabet}

Start(p, f, x, y) ==
    \/ f = "lcs_brute_force" /\ CallBruteForce(p, x, y)
    \/ f = "lcs_recursive" /\ CallRecursive(p, x, y)
    \/ f = "lcs_memoized" /\ CallMemoized(p, x, y)
    \/ f = "lcs_bottom_up" /\ CallBottomUp(p, x, y)

\* The first call of a run: any function on any arguments.
First ==
    /\ pc[1] = "idle"
    /\ hist = << >>
    /\ \E x \in Str(MaxLen), y \in Str(MaxLen) :
           \/ \E f \in Strategies : Start(1, f, x, y)
           \/ CallIsSubsequence(1, x, y)

\* The second call of a run.
FollowUp ==
    /\ pc[1] = "idle"
    /\ Len(hist) = 1
    /\ hist[1].fn \in Strategies
    /\ \E r \in Related(hist[1]) : Start(1, r[1], r[2], r[3])

\* The call returned to the caller, who records what it returned.
Return ==
    /\ pc[1] = "done"
    /\ hist' = Append(hist, [fn |-> fn[1], X |-> X[1], Y |-> Y[1],
                             ret |-> ret[1]])
    /\ Release(1)

Step(p) ==
    \/ BfIter(p) \/ BfReturn(p)
    \/ MemoHit(p) \/ MemoBase(p) \/ MemoBody(p) \/ MemoSecond(p)
    \/ MemoStore(p) \/ MemoReturn(p)
    \/ FillCell(p) \/ FillNextRow(p) \/ FillDone(p)
    \/ BackStep(p) \/ BackReturn(p)

Next == First \/ FollowUp \/ Return \/ Step(1)

Spec == Init /\ [][Next]_vars

\* ------------------------------------------------------- concurrent runs

\* Two callers, each calling lcs_memoized or lcs_bottom_up again and again
\* on arguments of its own; the steps of their calls interleave freely.
ConcCall(p) ==
    /\ pc[p] = "idle"
    /\ \E x \in Str(ConcMaxLen), y \in Str(ConcMaxLen) :
           CallMemoized(p, x, y) \/ CallBottomUp(p, x, y)

ConcReturn(p) ==
    /\ pc[p] = "done"
    /\ Release(p)
    /\ UNCHANGED hist

ConcStep(p) ==
    \/ MemoHit(p) \/ MemoBase(p) \/ MemoBody(p) \/ MemoSecond(p)
    \/ MemoStore(p) \/ MemoReturn(p)
    \/ FillCell(p) \/ FillNextRow(p) \/ FillDone(p)
    \/ BackStep(p) \/ BackReturn(p)

ConcNext == \E p \in Procs : ConcCall(p) \/ ConcReturn(p) \/ ConcStep(p)

SpecConc == Init /\ [][ConcNext]_vars

\* --------------------------------- lcs_recursive, activation by activation

\* The calls of lcs_recursive that are active at once are those on the call
\* stack: here lcs_recursive runs one activation step at a time, each
\* activation holding its own arguments X and Y.

\* An activation lcs_recursive(xs, ys) that has not run yet.
RecActivation(xs, ys) == [X |-> xs, Y |-> ys, at |-> "entry", lcs1 |-> << >>]

\* The innermost activation moves to line `at`, keeping lcs1 = l1, and
\* calls lcs_recursive(xs, ys).
RecRecurse(p, at, l1, xs, ys) ==
    Append(Append(Pop(p), [Top(p) EXCEPT !.at = at, !.lcs1 = l1]),
           RecActivation(xs, ys))

\* The outermost call lcs_recursive(x, y).
EnterRecursive(p, x, y) ==
    /\ pc[p] = "idle"
    /\ pc' = [pc EXCEPT ![p] = "rec"]
    /\ fn' = [fn EXCEPT ![p] = "lcs_recursive"]
    /\ X' = [X EXCEPT ![p] = x]
    /\ Y' = [Y EXCEPT ![p] = y]
    /\ stack' = [stack EXCEPT ![p] = <<RecActivation(x, y)>>]
    /\ UNCHANGED <<ret, i, j, longest_common_subsequence, memo, rv, c,
                   lcs_str, hist, filled, writer, evals, iterations>>

\* Lines 58-62: the base case.
RecBase(p) ==
    /\ pc[p] = "rec" /\ stack[p] # << >> /\ Top(p).at = "entry"
    /\ BaseCase(Len(Top(p).X), Len(Top(p).Y))
    /\ rv' = [rv EXCEPT ![p] = << >>]
    /\ stack' = [stack EXCEPT ![p] = Pop(p)]
    /\ UNCHANGED <<pc, fn, X, Y, ret, i, j, longest_common_subsequence, memo,
                   c, lcs_str, hist, filled, writer, evals, iterations>>

\* Line 65 and the first recursive call of the branch taken (line 66 or 69).
RecBody(p) ==
    /\ pc[p] = "rec" /\ stack[p] # << >> /\ Top(p).at = "entry"
    /\ ~BaseCase(Len(Top(p).X), Len(Top(p).Y))
    /\ stack' = [stack EXCEPT ![p] =
           IF At(Top(p).X, Len(Top(p).X) - 1) = At(Top(p).Y, Len(Top(p).Y) - 1)
           THEN RecRecurse(p, "line66", << >>,
                           DropLast(Top(p).X), DropLast(Top(p).Y))
           ELSE RecRecurse(p, "line69", << >>, Top(p).X, DropLast(Top(p).Y))]
    /\ UNCHANGED <<pc, fn, X, Y, ret, i, j, longest_common_subsequence, memo,
                   rv, c, lcs_str, hist, filled, writer, evals, iterations>>

\* Line 69 returned: bind lcs1 and make the call of line 70.
RecSecond(p) ==
    /\ pc[p] = "rec" /\ stack[p] # << >> /\ Top(p).at = "line69"
    /\ stack' = [stack EXCEPT ![p] =
                    RecRecurse(p, "line70", rv[p], DropLast(Top(p).X), Top(p).Y)]
    /\ UNCHANGED <<pc, fn, X, Y, ret, i, j, longest_common_subsequence, memo,
                   rv, c, lcs_str, hist, filled, writer, evals, iterations>>

\* The value of an activation whose last recursive call returned rv[p]:
\* line 66 or line 71.
RecResult(p) ==
    IF Top(p).at = "line66"
    THEN Append(rv[p], At(Top(p).X, Len(Top(p).X) - 1))
    ELSE KeepBranch(Top(p).lcs1, rv[p])

\* Line 66 or line 71: the activation returns.
RecFinish(p) ==
    /\ pc[p] = "rec" /\ stack[p] # << >>
    /\ Top(p).at \in {"line66", "line70"}
    /\ rv' = [rv EXCEPT ![p] = RecResult(p)]
    /\ stack' = [stack EXCEPT ![p] = Pop(p)]
    /\ UNCHANGED <<pc, fn, X, Y, ret, i, j, longest_common_subsequence, memo,
                   c, lcs_str, hist, filled, writer, evals, iterations>>

\* The outermost activation returned to the caller.
RecReturn(p) ==
    /\ pc[p] = "rec" /\ stack[p] = << >>
    /\ ret' = [ret EXCEPT ![p] = rv[p]]
    /\ pc' = [pc EXCEPT ![p] = "done"]
    /\ UNCHANGED <<fn, X, Y, i, j, longest_common_subsequence, memo, stack,
                   rv, c, lcs_str, hist, filled, writer, evals, iterations>>

\* One call of one of the two recursive strategies, on any arguments.
RecCall ==
    /\ pc[1] = "idle"
    /\ \E x \in Str(MaxLen), y \in Str(MaxLen) :
           EnterRecursive(1, x, y) \/ CallMemoized(1, x, y)

RecStep(p) ==
    \/ RecBase(p) \/ RecBody(p) \/ RecSecond(p) \/ RecFinish(p)
    \/ RecReturn(p)
    \/ MemoHit(p) \/ MemoBase(p) \/ MemoBody(p) \/ MemoSecond(p)
    \/ MemoStore(p) \/ MemoReturn(p)

RecNext == RecCall \/ RecStep(1)

SpecRec == Init /\ [][RecNext]_vars

\* ------------------------------------------ the vocabulary of the claims

\* What is left of t when exactly the positions in K (1-based) are kept, in
\* their order in t.
Kept(t, K) ==
    [k \in 1..Cardinality(K) |->
        t[CHOOSE e \in K : Cardinality({d \in K : d <= e}) = k]]

\* The strings obtained from t by deleting zero or more characters without
\* reordering the rest.
Subsequences(t) == {Kept(t, K) : K \in SUBSET (1..Len(t))}

\* Every string a call can be given.
Args == UNION {[1..k -> Alphabet] : k \in 0..(MaxLen + 1)}

\* The first entry <<key, value>> of a table with the given key.
Lookup(table, key) == (CHOOSE e \in table : e[1] = key)[2]

\* Subsequences, tabulated.
SubsequenceTable == {<<t, Subsequences(t)>> : t \in Args}
SubsequencesOf(t) == Lookup(SubsequenceTable, t)

IsSubsequenceOf(s, t) == s \in SubsequencesOf(t)

\* The maximum length of a string that is a subsequence of both x and y.
LCSLength(x, y) ==
    CHOOSE n \in 0..Len(x) :
        /\ \E s \in Subsequences(x) \cap Subsequences(y) : Len(s) = n
        /\ \A s \in Subsequences(x) \cap Subsequences(y) : Len(s) <= n

\* LCSLength, tabulated.
LCSLengthTable ==
    {<<x, {<<y, LCSLength(x, y)>> : y \in {t \in Args : Len(t) <= MaxLen}}>> :
        x \in Args}
TrueLCSLength(x, y) == Lookup(Lookup(LCSLengthTable, x), y)

\* The candidate of bitmask k: bit b of k selects the character X[b].
MaskCandidate(x, k) == Kept(x, {b \in 1..Len(x) : Bit(k, b - 1) = 1})

\* MaskCandidate, tabulated.
MaskCandidateTable ==
    {<<x, {<<k, MaskCandidate(x, k)>> : k \in 0..(2 ^ Len(x) - 1)}>> : x \in Args}
CandidateOf(x, k) == Lookup(Lookup(MaskCandidateTable, x), k)

\* The bitmasks below `upto` whose candidate is a subsequence of y.
CommonMasks(x, y, upto) ==
    {k \in 0..(upto - 1) : IsSubsequenceOf(CandidateOf(x, k), y)}

\* Those of them whose candidate has the greatest length among them.
BestMasks(x, y, upto) ==
    LET common == CommonMasks(x, y, upto)
        longest == CHOOSE n \in 0..Len(x) :
            /\ \E k \in common : Len(CandidateOf(x, k)) = n
            /\ \A k \in common : Len(CandidateOf(x, k)) <= n
    IN  {k \in common : Len(CandidateOf(x, k)) = longest}

Least(S) == CHOOSE k \in S : \A k2 \in S : k <= k2

\* The call of frame 1 returned a value of strategy f.
Returned(f) == pc[1] = "done" /\ fn[1] = f

\* The earlier call of the run, when it was strategy f on (x, y).
Earlier(f, x, y) ==
    /\ Len(hist) = 1
    /\ hist[1].fn = f /\ hist[1].X = x /\ hist[1].Y = y

\* ----------------------------------------------------------------- claims

\* C1: whenever one of the four strategies returns, the length of the
\* returned string is the true LCS length of its arguments (the maximum
\* length of a string that is a subsequence of both); so it equals the length
\* any other strategy returned earlier on the same arguments.
C1_LengthIsTrueLCSLength ==
    \A f \in Strategies :
        Returned(f) =>
            /\ Len(ret[1]) = TrueLCSLength(X[1], Y[1])
            /\ \A g \in Strategies :
                   Earlier(g, X[1], Y[1]) => Len(hist[1].ret) = Len(ret[1])

\* C1 witness: two strategies returned different strings of the same
\* length 2 on the same arguments.
C1_Witness ==
    /\ Returned("lcs_bottom_up")
    /\ Earlier("lcs_brute_force", X[1], Y[1])
    /\ Len(ret[1]) = 2
    /\ hist[1].ret # ret[1]

\* C2: the string a strategy returns is a subsequence of X and a subsequence
\* of Y.
C2_ResultIsCommonSubsequence ==
    \A f \in Strategies :
        Returned(f) =>
            IsSubsequenceOf(ret[1], X[1]) /\ IsSubsequenceOf(ret[1], Y[1])

\* C2 witness: a strategy returned a string of length 2 that is neither X
\* nor Y.
C2_Witness ==
    /\ Returned("lcs_memoized")
    /\ Len(ret[1]) = 2 /\ ret[1] # X[1] /\ ret[1] # Y[1]

\* C3: when X or Y is empty, a strategy raises nothing and returns the
\* empty string.
C3_EmptyInput ==
    \A f \in Strategies :
        (fn[1] = f /\ (X[1] = << >> \/ Y[1] = << >>)) =>
            /\ pc[1] # "raised"
            /\ pc[1] = "done" => ret[1] = << >>

\* C3 witness: lcs_memoized returned on an empty X and a Y of length 2, after
\* lcs_bottom_up returned on the same arguments.
C3_Witness ==
    /\ Returned("lcs_memoized")
    /\ X[1] = << >> /\ Len(Y[1]) = 2
    /\ Earlier("lcs_bottom_up", X[1], Y[1])

\* C4: _is_subsequence(sub, main_str) is True exactly when sub is obtained
\* from main_str by deleting characters without reordering; True for an
\* empty sub, False for a non-empty sub against an empty main_str.
C4_IsSubsequenceExact ==
    Returned("_is_subsequence") =>
        /\ ret[1] \in BOOLEAN
        /\ ret[1] <=> IsSubsequenceOf(X[1], Y[1])
        /\ X[1] = << >> => ret[1]
        /\ (X[1] # << >> /\ Y[1] = << >>) => ~ret[1]

\* C4 witness: _is_subsequence returned False for a sub all of whose
\* characters occur in main_str, in another order.
C4_Witness ==
    /\ Returned("_is_subsequence")
    /\ X[1] = <<"A", "B">> /\ Y[1] = <<"B", "A", "A">>
    /\ ret[1] = FALSE

\* C5: a strategy returns strings of the same length on (A, B) and (B, A).
C5_SwapKeepsLength ==
    \A f \in Strategies :
        (Returned(f) /\ Earlier(f, Y[1], X[1])) =>
            Len(ret[1]) = Len(hist[1].ret)

\* C5 witness: the two strings returned on (A, B) and on (B, A) differ.
C5_Witness ==
    /\ Returned("lcs_bottom_up")
    /\ Earlier("lcs_bottom_up", Y[1], X[1])
    /\ ret[1] # hist[1].ret

\* C6: appending one character to A never decreases the length a strategy
\* returns and increases it by at most 1.
C6_AppendMonotone ==
    \A f \in Strategies :
        (Returned(f) /\ Len(X[1]) > 0
                     /\ Earlier(f, DropLast(X[1]), Y[1])) =>
            /\ Len(hist[1].ret) <= Len(ret[1])
            /\ Len(ret[1]) <= Len(hist[1].ret) + 1

\* C6 witness: the character appended to an A of length MaxLen made the
\* result one longer.
C6_Witness ==
    /\ Returned("lcs_recursive")
    /\ Len(X[1]) = MaxLen + 1
    /\ Earlier("lcs_recursive", DropLast(X[1]), Y[1])
    /\ Len(ret[1]) = Len(hist[1].ret) + 1

\* C8: lcs_brute_force keeps, after the bitmasks 0 .. i-1, the candidate of
\* the smallest bitmask among those whose candidate is a subsequence of Y of
\* maximum length, and returns the one kept after all 2^m bitmasks.
C8_FirstLongestCandidate ==
    (fn[1] = "lcs_brute_force" /\ pc[1] \in {"bf", "done"}) =>
        /\ longest_common_subsequence[1] =
               IF i[1] = 0 THEN << >>
               ELSE CandidateOf(X[1], Least(BestMasks(X[1], Y[1], i[1])))
        /\ pc[1] = "done" =>
               /\ i[1] = 2 ^ Len(X[1])
               /\ ret[1] = longest_common_subsequence[1]

\* C8 witness: lcs_brute_force returned, and a later bitmask had a different
\* candidate of the same length that is a subsequence of Y too.
C8_Witness ==
    /\ Returned("lcs_brute_force")
    /\ \E k \in BestMasks(X[1], Y[1], 2 ^ Len(X[1])) :
           CandidateOf(X[1], k) # ret[1]

\* C9: lcs_memoized returns exactly the string lcs_recursive returns.
C9_MemoizedEqualsRecursive ==
    Returned("lcs_memoized") =>
        /\ ret[1] = lcs_recursive(X[1], Y[1])
        /\ Earlier("lcs_recursive", X[1], Y[1]) => ret[1] = hist[1].ret

\* C9 witness: both returned the same string where another string of the
\* same length is a common subsequence too (the tie-break decided).
C9_Witness ==
    /\ Returned("lcs_memoized")
    /\ Earlier("lcs_recursive", X[1], Y[1])
    /\ \E s \in SubsequencesOf(X[1]) \cap SubsequencesOf(Y[1]) :
           Len(s) = Len(ret[1]) /\ s # ret[1]

\* The cells of row 0 and column 0 of the table of call p.
Border(p) ==
    {k \in (0..Len(X[p])) \X (0..Len(Y[p])) : k[1] = 0 \/ k[2] = 0}

\* C10: the cells of row 0 and column 0 are 0; when phase 1 has finished,
\* every other cell satisfies the recurrence; every cell that has received
\* its value (row 0, column 0, the cells the loop has assigned) holds the
\* true LCS length of the two prefixes and keeps it; and the loop body reads
\* only such cells.
C10_TableAfterPhase1 ==
    (fn[1] = "lcs_bottom_up" /\ pc[1] \in {"fill", "back", "done"}) =>
        LET tab == c[Scope(1)]
            m == Len(X[1])
            n == Len(Y[1])
        IN  /\ Len(tab) = m + 1
            /\ \A a \in 1..(m + 1) : Len(tab[a]) = n + 1
            /\ \A k \in Border(1) : tab[k[1] + 1][k[2] + 1] = 0
            /\ \A k \in Border(1) \cup filled[Scope(1)] :
                   tab[k[1] + 1][k[2] + 1] =
                       TrueLCSLength(Prefix(X[1], k[1]), Prefix(Y[1], k[2]))
            /\ (pc[1] = "fill" /\ i[1] <= m /\ j[1] <= n) =>
                   FillReads(1, i[1], j[1]) \subseteq
                       Border(1) \cup filled[Scope(1)]
            /\ pc[1] \in {"back", "done"} =>
                   /\ filled[Scope(1)] = (1..m) \X (1..n)
                   /\ \A a \in 1..m, b \in 1..n :
                          tab[a + 1][b + 1] =
                              IF X[1][a] = Y[1][b]
                              THEN tab[a][b] + 1
                              ELSE Max(tab[a][b + 1], tab[a + 1][b])

\* C10 witness: phase 1 finished on two strings of length MaxLen with a
\* table whose last cell is 2, and backtracking has begun.
C10_Witness ==
    /\ fn[1] = "lcs_bottom_up" /\ pc[1] = "back"
    /\ Len(X[1]) = MaxLen /\ Len(Y[1]) = MaxLen
    /\ c[Scope(1)][MaxLen + 1][MaxLen + 1] = 2
    /\ c[Scope(1)][MaxLen][MaxLen + 1] = c[Scope(1)][MaxLen + 1][MaxLen]

\* Run alone (one call at a time), lcs_memoized and lcs_bottom_up return the
\* string lcs_recursive computes: the reference a call running beside
\* another one is compared with.  Checked under Spec.
AloneReturnsReference ==
    \A f \in {"lcs_memoized", "lcs_bottom_up"} :
        Returned(f) => ret[1] = lcs_recursive(X[1], Y[1])

\* C7: under any interleaving of the steps of two callers, each calling
\* lcs_memoized or lcs_bottom_up again and again, a call raises nothing,
\* returns the string it returns when run alone, and its cache or table
\* holds only what the call itself wrote.
C7_CallsAreIsolated ==
    \A p \in Procs :
        /\ pc[p] # "raised"
        /\ pc[p] = "done" => ret[p] = lcs_recursive(X[p], Y[p])
        /\ pc[p] \in {"memo", "fill", "back", "done"} =>
               \A k \in DOMAIN writer[Scope(p)] : writer[Scope(p)][k] = p

\* C7 witness: an activation of _lcs_memo is about to read an entry of its
\* call's cache while a call of lcs_bottom_up on other arguments is filling
\* its table.
C7_Witness ==
    /\ fn[1] = "lcs_memoized" /\ pc[1] = "memo"
    /\ Len(stack[1]) >= 2 /\ Top(1).at = "entry"
    /\ <<Top(1).i, Top(1).j>> \in DOMAIN memo[Scope(1)]
    /\ fn[2] = "lcs_bottom_up" /\ pc[2] = "fill"
    /\ <<1, 1>> \in filled[Scope(2)]
    /\ X[2] # X[1] /\ Y[2] # Y[1]

\* The index pair of the innermost activation of _lcs_memo of call 1.
TopKey == <<Top(1).i, Top(1).j>>

\* The innermost activation of call 1 is at line 84 with its index pair in
\* the cache.
AtCachedEntry ==
    /\ fn[1] = "lcs_memoized" /\ pc[1] = "memo"
    /\ stack[1] # << >> /\ Top(1).at = "entry"
    /\ TopKey \in DOMAIN memo[Scope(1)]

\* During a call of lcs_memoized and when it has returned: the body of
\* _lcs_memo was evaluated only for index pairs of (1..m) x (1..n), at most
\* once for each, and the cache holds entries only for such pairs.
BodyAtMostOnce ==
    (fn[1] = "lcs_memoized" /\ pc[1] \in {"memo", "done"}) =>
        LET pairs == (1..Len(X[1])) \X (1..Len(Y[1]))
        IN  /\ DOMAIN evals[1] \subseteq pairs
            /\ \A k \in DOMAIN evals[1] : evals[1][k] <= 1
            /\ DOMAIN memo[Scope(1)] \subseteq DOMAIN evals[1]
            /\ Cardinality(DOMAIN memo[Scope(1)]) <= Len(X[1]) * Len(Y[1])

\* A step from a cached entry returns the cached value: the activation is
\* left, nothing is called, evaluated or stored.
HitReturnsCached ==
    AtCachedEntry =>
        /\ stack'[1] = Pop(1)
        /\ rv'[1] = memo[Scope(1)][TopKey]
        /\ memo' = memo /\ evals' = evals

\* A step of a call of lcs_memoized keeps every entry of the cache, with its
\* value.
EntriesKept ==
    (fn[1] = "lcs_memoized" /\ pc[1] = "memo") =>
        \A k \in DOMAIN memo[Scope(1)] :
            /\ k \in DOMAIN memo'[Scope(1)]
            /\ memo'[Scope(1)][k] = memo[Scope(1)][k]

\* C11: within one call of lcs_memoized, a subproblem found in the cache is
\* returned without further recursion; the body of _lcs_memo is evaluated at
\* most once for each index pair of (1..m) x (1..n); at most m*n entries are
\* written, and no entry is overwritten or removed.
C11_EachSubproblemOnce ==
    /\ []BodyAtMostOnce
    /\ [][HitReturnsCached /\ EntriesKept]_vars

\* C11 witness: a nested activation of _lcs_memo is at a subproblem that is
\* in the cache, after the body was evaluated for at least four index pairs.
C11_Witness ==
    /\ AtCachedEntry
    /\ Len(stack[1]) >= 3
    /\ Cardinality(DOMAIN evals[1]) >= 4

\* The two remaining lengths of the k-th active recursive call of call 1,
\* outermost first: len(X) and len(Y) of an activation of lcs_recursive, the
\* indices i and j of an activation of _lcs_memo.
Remaining(k) ==
    IF fn[1] = "lcs_memoized"
    THEN <<stack[1][k].i, stack[1][k].j>>
    ELSE <<Len(stack[1][k].X), Len(stack[1][k].Y)>>

\* Run activation by activation, lcs_recursive returns the value of the
\* operator lcs_recursive.  Checked under SpecRec.
StepsReturnOperatorValue ==
    (fn[1] = "lcs_recursive" /\ pc[1] = "done") =>
        ret[1] = lcs_recursive(X[1], Y[1])

\* C12: the number of active calls of lcs_recursive, and of _lcs_memo inside
\* lcs_memoized, is at most m + n when both arguments are non-empty and at
\* most 1 when one is empty; every nested call has a strictly smaller sum of
\* remaining lengths than the call that made it, no remaining length is
\* negative, and a call with a remaining length of 0 makes no nested call.
C12_DepthAtMostSum ==
    (fn[1] \in {"lcs_recursive", "lcs_memoized"} /\ pc[1] \in {"rec", "memo"}) =>
        LET m == Len(X[1])
            n == Len(Y[1])
            d == Len(stack[1])
        IN  /\ (m > 0 /\ n > 0) => d <= m + n
            /\ (m = 0 \/ n = 0) => d <= 1
            /\ \A k \in 1..d : Remaining(k)[1] >= 0 /\ Remaining(k)[2] >= 0
            /\ \A k \in 1..(d - 1) :
                   /\ Remaining(k + 1)[1] + Remaining(k + 1)[2] <
                          Remaining(k)[1] + Remaining(k)[2]
                   /\ Remaining(k)[1] > 0 /\ Remaining(k)[2] > 0

\* C12 witness: m + n calls of lcs_recursive are active at once, on
\* arguments of length 2 or more.
C12_Witness ==
    /\ fn[1] = "lcs_recursive" /\ pc[1] = "rec"
    /\ Len(X[1]) >= 2 /\ Len(Y[1]) >= 2
    /\ Len(stack[1]) = Len(X[1]) + Len(Y[1])

\* What lcs_recursive returns on the prefixes X[:a] and Y[:b] of the
\* arguments of call 1.
RecursiveOn(a, b) == lcs_recursive(Prefix(X[1], a), Prefix(Y[1], b))

\* The loop at line 126 is at (i, j) with both positive and X[i-1] # Y[j-1].
AtMismatch ==
    /\ fn[1] = "lcs_bottom_up" /\ pc[1] = "back"
    /\ i[1] > 0 /\ j[1] > 0
    /\ X[1][i[1]] # Y[1][j[1]]

\* C13: at a mismatch the backtracking loop of lcs_bottom_up moves to
\* (i-1, j) exactly when lcs_recursive on the prefixes keeps the (i-1, j)
\* result (the (i, j-1) result being strictly shorter); what lcs_recursive
\* returns on the prefixes X[:i], Y[:j], followed by lcs_str, is what it
\* returns on X, Y; and lcs_bottom_up returns exactly the string of
\* lcs_recursive, which is the string lcs_recursive or lcs_memoized returned
\* earlier on the same arguments.
C13_BottomUpEqualsRecursive ==
    /\ AtMismatch =>
           (MoveUp(c[Scope(1)], i[1], j[1]) <=>
                KeepBranch(RecursiveOn(i[1], j[1] - 1),
                           RecursiveOn(i[1] - 1, j[1])) #
                    RecursiveOn(i[1], j[1] - 1))
    /\ (fn[1] = "lcs_bottom_up" /\ pc[1] = "back") =>
           RecursiveOn(i[1], j[1]) \o lcs_str[1] =
               lcs_recursive(X[1], Y[1])
    /\ Returned("lcs_bottom_up") =>
           /\ ret[1] = lcs_recursive(X[1], Y[1])
           /\ \A f \in {"lcs_recursive", "lcs_memoized"} :
                  Earlier(f, X[1], Y[1]) => ret[1] = hist[1].ret

\* C13 witness: lcs_bottom_up returned after lcs_memoized on arguments whose
\* last characters differ and for which the two branches of lcs_recursive
\* give different strings of the same length.
C13_Witness ==
    /\ Returned("lcs_bottom_up")
    /\ Earlier("lcs_memoized", X[1], Y[1])
    /\ Len(X[1]) > 0 /\ Len(Y[1]) > 0
    /\ X[1][Len(X[1])] # Y[1][Len(Y[1])]
    /\ Len(lcs_recursive(X[1], DropLast(Y[1]))) =
           Len(lcs_recursive(DropLast(X[1]), Y[1]))
    /\ lcs_recursive(X[1], DropLast(Y[1])) #
           lcs_recursive(DropLast(X[1]), Y[1])

\* The loop at line 126 of call 1 is at its test: the start of an iteration,
\* or the exit.
AtLoopTest == fn[1] = "lcs_bottom_up" /\ pc[1] = "back"

\* At every test of the backtracking loop: i and j are within the table,
\* len(lcs_str) + c[i][j] = c[m][n], and the iterations completed number at
\* most m + n - (i + j).
BacktrackingInvariant ==
    AtLoopTest =>
        LET m == Len(X[1])
            n == Len(Y[1])
            tab == c[Scope(1)]
        IN  /\ 0 <= i[1] /\ i[1] <= m
            /\ 0 <= j[1] /\ j[1] <= n
            /\ Len(lcs_str[1]) + Cell(tab, i[1], j[1]) = Cell(tab, m, n)
            /\ iterations[1] + i[1] + j[1] <= m + n
            /\ iterations[1] <= m + n

\* When lcs_bottom_up has returned: the loop was left with i = 0 or j = 0
\* after at most m + n iterations and the string returned has length c[m][n].
BacktrackingResult ==
    Returned("lcs_bottom_up") =>
        /\ i[1] = 0 \/ j[1] = 0
        /\ iterations[1] <= Len(X[1]) + Len(Y[1])
        /\ Len(ret[1]) = Cell(c[Scope(1)], Len(X[1]), Len(Y[1]))

\* An iteration of the loop decreases i + j by 1 or 2.
IterationDecreases ==
    (AtLoopTest /\ i[1] > 0 /\ j[1] > 0) =>
        /\ iterations'[1] = iterations[1] + 1
        /\ (i[1] + j[1]) - (i'[1] + j'[1]) \in {1, 2}
        /\ i'[1] <= i[1] /\ j'[1] <= j[1]

\* C14: at the start of every iteration of the backtracking loop of
\* lcs_bottom_up, len(lcs_str) + c[i][j] = c[m][n] with 0 <= i <= m and
\* 0 <= j <= n; every iteration decreases i + j by 1 or 2; the loop is left
\* after at most m + n iterations with i = 0 or j = 0, and the string
\* returned has length c[m][n].
C14_BacktrackingLoop ==
    /\ [](BacktrackingInvariant /\ BacktrackingResult)
    /\ [][IterationDecreases]_vars

\* C14 witness: lcs_bottom_up returned a string of length 2 after a loop in
\* which some iteration decreased i + j by 2 and some other by 1.
C14_Witness ==
    /\ Returned("lcs_bottom_up")
    /\ Len(ret[1]) = 2
    /\ iterations[1] > Len(ret[1])
    /\ iterations[1] + i[1] + j[1] < Len(X[1]) + Len(Y[1])

=============================================================================
